---- MODULE Spec2Model ----
(***************************************************************************)
(* gemini-chatbot-api: the chat relay (POST /api/chat) and the browser     *)
(* chat controller (public/script.js), as two state machines.              *)
(*                                                                         *)
(* JavaScript values are tagged records:                                   *)
(*   [t |-> "undefined"], [t |-> "null"], [t |-> "string", v |-> s],       *)
(*   [t |-> "number", v |-> digits], [t |-> "array", e |-> <<...>>],       *)
(*   [t |-> "object", f |-> << [k |-> key, v |-> value], ... >>]           *)
(* (an object keeps its properties in insertion order, as JS does), and    *)
(*   [t |-> "error", message |-> s] for an Error instance.                 *)
(***************************************************************************)
EXTENDS Integers, Sequences, FiniteSets, TLC

VARIABLES
    reqs,        \* relay: one record per POST /api/chat request received
    userInput,   \* UI: userInput.value
    chatBox,     \* UI: the children of #chat-box, oldest first
    subs,        \* UI: one record per run of the submit handler past line 50
    submitPath   \* UI: how the latest run of the submit handler began

vars == <<reqs, userInput, chatBox, subs, submitPath>>

(***************************************************************************)
(* Bounds                                                                  *)
(***************************************************************************)
MaxReqs == 2      \* requests the relay receives
MaxMsgs == 2      \* length of a messages array
MaxSubs == 2      \* accepted (non-empty) submissions of the form

(***************************************************************************)
(* JavaScript values                                                       *)
(***************************************************************************)
Undefined == [t |-> "undefined"]
Null == [t |-> "null"]
Str(s) == [t |-> "string", v |-> s]
Num(d) == [t |-> "number", v |-> d]
Arr(e) == [t |-> "array", e |-> e]
Obj(f) == [t |-> "object", f |-> f]
P(k, v) == [k |-> k, v |-> v]
Err(m) == [t |-> "error", message |-> m]

IsNullish(v) == v.t \in {"undefined", "null"}

\* a ?? b
Coalesce(a, b) == IF IsNullish(a) THEN b ELSE a

\* ToBoolean, for the value kinds above
Truthy(v) ==
    CASE v.t \in {"undefined", "null"} -> FALSE
      [] v.t = "string" -> v.v # ""
      [] v.t = "number" -> v.v # "0"
      [] OTHER -> TRUE

\* a || b
OrElse(a, b) == IF Truthy(a) THEN a ELSE b

\* o?.k : undefined on a nullish base, on a missing key, on a primitive
Get(o, k) ==
    IF o.t = "object" /\ \E i \in DOMAIN o.f : o.f[i].k = k
    THEN o.f[CHOOSE i \in DOMAIN o.f : o.f[i].k = k].v
    ELSE IF o.t = "error" /\ k = "message" THEN Str(o.message)
    ELSE Undefined

\* a?.[0]
At0(a) ==
    IF a.t = "array" /\ Len(a.e) > 0 THEN a.e[1]
    ELSE IF a.t = "string" /\ Len(a.v) > 0 THEN Str(SubSeq(a.v, 1, 1))
    ELSE Undefined

\* Array.isArray
IsArray(v) == v.t = "array"

(***************************************************************************)
(* JSON.stringify(value, null, 2)                                          *)
(***************************************************************************)
RECURSIVE Pad(_)
Pad(n) == IF n = 0 THEN "" ELSE " " \o Pad(n - 1)

\* values JSON.stringify leaves out of an object and turns to null in an array
Unserializable(v) == v.t = "undefined"

RECURSIVE Ser(_, _), SerElems(_, _), SerProps(_, _, _)
\* the elements of an array, one per line
SerElems(e, ind) ==
    IF Len(e) = 0 THEN ""
    ELSE Pad(ind) \o (IF Unserializable(e[1]) THEN "null" ELSE Ser(e[1], ind))
         \o (IF Len(e) > 1 THEN ",\n" ELSE "\n") \o SerElems(Tail(e), ind)
\* the serializable properties of an object, one per line
SerProps(f, ind, first) ==
    IF Len(f) = 0 THEN ""
    ELSE IF Unserializable(f[1].v) THEN SerProps(Tail(f), ind, first)
    ELSE (IF first THEN "" ELSE ",\n")
         \o Pad(ind) \o "\"" \o f[1].k \o "\": " \o Ser(f[1].v, ind)
         \o SerProps(Tail(f), ind, FALSE)
Ser(v, ind) ==
    CASE v.t = "null" -> "null"
      [] v.t = "string" -> "\"" \o v.v \o "\""
      [] v.t = "number" -> v.v
      [] v.t = "array" ->
            IF Len(v.e) = 0 THEN "[]"
            ELSE "[\n" \o SerElems(v.e, ind + 2) \o Pad(ind) \o "]"
      [] v.t = "object" ->
            IF \A i \in DOMAIN v.f : Unserializable(v.f[i].v) THEN "{}"
            ELSE "{\n" \o SerProps(v.f, ind + 2, TRUE) \o "\n" \o Pad(ind) \o "}"
      [] v.t = "error" -> "{}"
      [] OTHER -> "null"

\* JSON.stringify(v, null, 2): undefined (not a string) for undefined
JSONstringify(v) == IF Unserializable(v) THEN Undefined ELSE Str(Ser(v, 0))

(***************************************************************************)
(* Relay: extractText                                                      *)
(***************************************************************************)
\* resp?.response?.candidate?.[0]?.content?.part?.[0]?.text
Path1(resp) ==
    Get(At0(Get(Get(At0(Get(Get(resp, "response"), "candidate")), "content"), "part")), "text")

\* resp?.candidate?.[0]?.content?.parts?.[0]?.text
Path2(resp) ==
    Get(At0(Get(Get(At0(Get(resp, "candidate")), "content"), "parts")), "text")

\* resp?.response?.candidates?.[0]?.content?.text
Path3(resp) ==
    Get(Get(At0(Get(Get(resp, "response"), "candidates")), "content"), "text")

\* extractText trying path 2 before path 1
extractText_Path2First(resp) ==
    LET text == Coalesce(Path2(resp), Coalesce(Path1(resp), Path3(resp)))
    IN  Coalesce(text, JSONstringify(resp))

\* Optional chaining over plain data never throws and JSON.stringify throws
\* only on values no JSON response holds (cycles, BigInt), so the catch
\* branch returns what the try branch returns on every value modelled here.
extractText(resp) ==
    LET text == Coalesce(Path1(resp), Coalesce(Path2(resp), Path3(resp)))
    IN  Coalesce(text, JSONstringify(resp))

(***************************************************************************)
(* Relay: app.post('/api/chat')                                            *)
(***************************************************************************)
GEMINI_MODEL == "gemini-2.5-flash"

\* msg => ({ role: msg.role, parts: [{ text: msg.content }] })
MapMsg(msg) ==
    Obj(<<P("role", Get(msg, "role")),
          P("parts", Arr(<<Obj(<<P("text", Get(msg, "content"))>>)>>))>>)

\* the turns in reverse order
ToContents_Reversed(messages) ==
    Arr([i \in DOMAIN messages.e |-> MapMsg(messages.e[Len(messages.e) + 1 - i])])

\* messages.map(...): elements in order
ToContents(messages) == Arr([i \in DOMAIN messages.e |-> MapMsg(messages.e[i])])

NoCall == [model |-> "", contents |-> Undefined]

\* the handler with `if (!messages)` for the check and Array.from(messages)
\* for the turns: every truthy messages value reaches the call
HandlerEntry_Lenient(body) ==
    IF IsNullish(body)
    THEN [threw |-> TRUE, call |-> NoCall,
          error |-> Err("Cannot destructure property 'messages' of 'req.body'")]
    ELSE LET messages == Get(body, "messages") IN
         IF ~Truthy(messages)
         THEN [threw |-> TRUE, call |-> NoCall,
               error |-> Err("Invalid messages format. Expected an array.")]
         ELSE IF IsArray(messages) /\ \E i \in DOMAIN messages.e : IsNullish(messages.e[i])
         THEN [threw |-> TRUE, call |-> NoCall,
               error |-> Err("Cannot read properties of null (reading 'role')")]
         ELSE [threw |-> FALSE, error |-> Undefined,
               call |-> [model |-> GEMINI_MODEL,
                         contents |-> IF IsArray(messages) THEN ToContents(messages)
                                      ELSE Arr(<<>>)]]

\* Lines 41-47 up to the await: what the try block throws, or the call it issues.
\* Reading a property of a nullish value throws a TypeError.
HandlerEntry(body) ==
    IF IsNullish(body)
    THEN [threw |-> TRUE, call |-> NoCall,
          error |-> Err("Cannot destructure property 'messages' of 'req.body'")]
    ELSE LET messages == Get(body, "messages") IN
         IF ~IsArray(messages)
         THEN [threw |-> TRUE, call |-> NoCall,
               error |-> Err("Invalid messages format. Expected an array.")]
         ELSE IF \E i \in DOMAIN messages.e : IsNullish(messages.e[i])
         THEN [threw |-> TRUE, call |-> NoCall,
               error |-> Err("Cannot read properties of null (reading 'role')")]
         ELSE [threw |-> FALSE, error |-> Undefined,
               call |-> [model |-> GEMINI_MODEL, contents |-> ToContents(messages)]]

\* res.status(500)
ErrorStatus == 500
\* res.json(...) without res.status(): Express answers 200
OkStatus == 200

\* the catch block without res.status(500)
CatchResponse_NoStatus(error) ==
    [status |-> OkStatus,
     body |-> Obj(<<P("error", OrElse(Get(error, "message"), Str("Internal Server Error")))>>)]

\* catch (error): res.status(500).json({ error: error.message || '...' })
CatchResponse(error) ==
    [status |-> ErrorStatus,
     body |-> Obj(<<P("error", OrElse(Get(error, "message"), Str("Internal Server Error")))>>)]

\* res.json({ result: extractText(resp) })
OkResponse(resp) ==
    [status |-> OkStatus, body |-> Obj(<<P("result", extractText(resp))>>)]

\* The body as the client parses it: res.json writes JSON.stringify(body),
\* which leaves out the properties whose value is undefined.
Wire(body) ==
    Obj(SelectSeq(body.f, LAMBDA p : ~Unserializable(p.v)))

HasKey(o, k) == o.t = "object" /\ \E i \in DOMAIN o.f : o.f[i].k = k

CatchLog == "Error in /api/chat:"

\* The handler runs from line 40 to the await of line 47, or to the end of
\* the catch block when the try block throws before the call.
Receive(body) ==
    /\ Len(reqs) < MaxReqs
    /\ LET h == HandlerEntry(body) IN
       reqs' = Append(reqs,
          IF h.threw
          THEN [body |-> body, pc |-> "done", calls |-> <<>>, settled |-> "never",
                value |-> Undefined, out |-> <<CatchResponse(h.error)>>,
                logs |-> <<CatchLog>>]
          ELSE [body |-> body, pc |-> "awaiting", calls |-> <<h.call>>,
                settled |-> "pending", value |-> Undefined, out |-> <<>>,
                logs |-> <<>>])
    /\ UNCHANGED <<userInput, chatBox, subs, submitPath>>

\* ai.models.generateContent resolves with resp: lines 51-53
GenerateResolves(i, resp) ==
    /\ i \in DOMAIN reqs
    /\ reqs[i].pc = "awaiting"
    /\ reqs' = [reqs EXCEPT ![i].pc = "done",
                            ![i].settled = "resolved",
                            ![i].value = resp,
                            ![i].out = Append(@, OkResponse(resp))]
    /\ UNCHANGED <<userInput, chatBox, subs, submitPath>>

\* ai.models.generateContent throws or rejects with error: lines 54-57
GenerateRejects(i, error) ==
    /\ i \in DOMAIN reqs
    /\ reqs[i].pc = "awaiting"
    /\ reqs' = [reqs EXCEPT ![i].pc = "done",
                            ![i].settled = "rejected",
                            ![i].value = error,
                            ![i].logs = Append(@, CatchLog),
                            ![i].out = Append(@, CatchResponse(error))]
    /\ UNCHANGED <<userInput, chatBox, subs, submitPath>>

(***************************************************************************)
(* Relay: the inputs                                                       *)
(***************************************************************************)
Msg(role, content) == Obj(<<P("role", Str(role)), P("content", Str(content))>>)

\* what a messages array may hold: chat messages, and null
Elements == {Msg("user", "Hi"), Msg("model", "Yo"), Null}

RECURSIVE SeqsUpTo(_, _)
SeqsUpTo(S, n) ==
    IF n = 0 THEN {<<>>}
    ELSE LET shorter == SeqsUpTo(S, n - 1) IN
         shorter \cup {Append(s, x) : s \in shorter, x \in S}

ArrayBodies == {Obj(<<P("messages", Arr(e))>>) : e \in SeqsUpTo(Elements, MaxMsgs)}

\* messages a string, a number, null, an object, absent; no parsed body at all
NonArrayBodies ==
    {Obj(<<P("messages", Str("hello"))>>),
     Obj(<<P("messages", Num("42"))>>),
     Obj(<<P("messages", Null)>>),
     Obj(<<P("messages", Obj(<<P("length", Num("0"))>>))>>),
     Obj(<<>>),
     Undefined}

Bodies == ArrayBodies \cup NonArrayBodies

\* what generateContent rejects with: an Error, an Error with an empty
\* message, a thrown string
Rejections == {Err("quota exceeded"), Err(""), Str("boom")}

\* A response with the given value at each known path (Absent: the path's
\* branch is missing altogether).
Absent == [t |-> "absent"]
Candidate1(t1) == Obj(<<P("content", Obj(<<P("part", Arr(<<Obj(<<P("text", t1)>>)>>))>>))>>)
Candidate2(t2) == Obj(<<P("content", Obj(<<P("parts", Arr(<<Obj(<<P("text", t2)>>)>>))>>))>>)
Candidate3(t3) == Obj(<<P("content", Obj(<<P("text", t3)>>))>>)
Shape(t1, t2, t3) ==
    LET inner == (IF t1 = Absent THEN <<>> ELSE <<P("candidate", Arr(<<Candidate1(t1)>>))>>)
              \o (IF t3 = Absent THEN <<>> ELSE <<P("candidates", Arr(<<Candidate3(t3)>>))>>)
    IN  Obj((IF inner = <<>> THEN <<>> ELSE <<P("response", Obj(inner))>>)
         \o (IF t2 = Absent THEN <<>> ELSE <<P("candidate", Arr(<<Candidate2(t2)>>))>>))

\* the shape the SDK documents: candidates[0].content.parts[0].text
SdkShape ==
    Obj(<<P("candidates", Arr(<<Obj(<<P("content",
        Obj(<<P("parts", Arr(<<Obj(<<P("text", Str("hi"))>>)>>)), P("role", Str("model"))>>))>>)>>))>>)

Responses ==
    {Shape(t1, t2, t3) : t1 \in {Absent, Null, Str("one")},
                         t2 \in {Absent, Null, Str("two")},
                         t3 \in {Absent, Null, Str("three")}}
    \cup {Undefined, Null, SdkShape,
          Shape(Undefined, Str("two"), Absent),
          Shape(Str(""), Str("two"), Absent),
          Shape(Num("42"), Absent, Absent),
          Shape(Absent, Absent, Num("0")),
          Obj(<<P("response", Str("text"))>>)}

\* the relay under every request body, with a few outcomes of the call
RelayResponses == {Shape(Str("one"), Absent, Absent), SdkShape}

NextRelay ==
    \/ \E body \in Bodies : Receive(body)
    \/ \E i \in 1..MaxReqs, resp \in RelayResponses : GenerateResolves(i, resp)
    \/ \E i \in 1..MaxReqs, error \in Rejections : GenerateRejects(i, error)

\* the relay under one well-formed body, with every response shape
ExtractBodies == {Obj(<<P("messages", Arr(<<Msg("user", "Hi")>>))>>)}

NextExtract ==
    \/ \E body \in ExtractBodies : Receive(body)
    \/ \E i \in 1..MaxReqs, resp \in Responses : GenerateResolves(i, resp)
    \/ \E i \in 1..MaxReqs, error \in Rejections : GenerateRejects(i, error)

Init ==
    /\ reqs = <<>>
    /\ userInput = ""
    /\ chatBox = <<>>
    /\ subs = <<>>
    /\ submitPath = "none"

(***************************************************************************)
(* Chat UI controller: public/script.js                                    *)
(***************************************************************************)
IsSpace(c) == c \in {" ", "\t", "\n"}

RECURSIVE TrimStart(_), TrimEnd(_)
TrimStart(s) ==
    IF Len(s) > 0 /\ IsSpace(SubSeq(s, 1, 1)) THEN TrimStart(SubSeq(s, 2, Len(s))) ELSE s
TrimEnd(s) ==
    IF Len(s) > 0 /\ IsSpace(SubSeq(s, Len(s), Len(s)))
    THEN TrimEnd(SubSeq(s, 1, Len(s) - 1)) ELSE s

\* the input taken untrimmed
Trim_None(s) == s

\* String.prototype.trim
Trim(s) == TrimEnd(TrimStart(s))

Thinking == "Thinking..."
NoResponseText == "Sorry, no response was received from the server."
FailureText == "Failed to get a response from the server. Please try again."

\* chatBox.appendChild of a new div with the text and the sender's class
addMessageToChatBox(box, text, sender) == Append(box, [sender |-> sender, text |-> text])

\* element.textContent = v: the DOM stores the string conversion of v
TextContent(v) ==
    CASE v.t \in {"string", "number"} -> v.v
      [] v.t = "array" -> ""
      [] OTHER -> "[object Object]"

\* a lookup of the first bot bubble in place of the kept reference
CreatedElement_FirstBot(box) ==
    CHOOSE b \in DOMAIN box :
        /\ box[b].sender = "bot"
        /\ \A a \in 1..(b - 1) : box[a].sender # "bot"

\* return messageElement: the element just appended
CreatedElement(box) == Len(box)

\* the body of the fetch: { messages: [{ role: 'user', content: userMessage }] }
FetchBody(userMessage) == Obj(<<P("messages", Arr(<<Msg("user", userMessage)>>))>>)

\* no check of response.ok
ResponseOk_Unchecked(status) == TRUE

\* response.ok
ResponseOk(status) == status \in 200..299

\* lines 86-91: the text the placeholder gets from the parsed body
ReplyText(data) ==
    IF Truthy(data) /\ Truthy(Get(data, "result"))
    THEN TextContent(Get(data, "result"))
    ELSE NoResponseText

\* the user edits the input field
Type(v) ==
    /\ userInput' = v
    /\ UNCHANGED <<reqs, chatBox, subs, submitPath>>

\* the submit handler, from line 42 to the await of line 63
Submit ==
    LET userMessage == Trim(userInput) IN
    IF userMessage = ""
    THEN /\ submitPath' = "ignored"
         /\ UNCHANGED <<reqs, userInput, chatBox, subs>>
    ELSE /\ Len(subs) < MaxSubs
         /\ LET withUser == addMessageToChatBox(chatBox, userMessage, "user")
                withBot == addMessageToChatBox(withUser, Thinking, "bot")
            IN  /\ chatBox' = withBot
                /\ subs' = Append(subs,
                      [thinkingMessage |-> CreatedElement(withBot), pc |-> "fetching",
                       sent |-> FetchBody(userMessage), status |-> 0,
                       data |-> Undefined, writes |-> 0, caught |-> FALSE])
         /\ userInput' = ""
         /\ submitPath' = "accepted"
         /\ UNCHANGED reqs

\* the reply shown in a new bubble, the placeholder left as it is
SetText_NewBubble(box, el, text) == Append(box, [sender |-> "bot", text |-> text])

\* thinkingMessage.textContent = text, on the element the handler kept
SetText(box, el, text) == [box EXCEPT ![el].text = text]

\* the catch block of lines 93-97
CatchFailure(i, status) ==
    /\ chatBox' = SetText(chatBox, subs[i].thinkingMessage, FailureText)
    /\ subs' = [subs EXCEPT ![i].pc = "done", ![i].status = status,
                            ![i].caught = TRUE, ![i].writes = @ + 1]
    /\ UNCHANGED <<reqs, userInput, submitPath>>

\* fetch resolves with a response of this status: lines 78-83
FetchResolves(i, status) ==
    /\ i \in DOMAIN subs
    /\ subs[i].pc = "fetching"
    /\ IF ResponseOk(status)
       THEN /\ subs' = [subs EXCEPT ![i].pc = "parsing", ![i].status = status]
            /\ UNCHANGED <<reqs, userInput, chatBox, submitPath>>
       ELSE CatchFailure(i, status)

\* fetch rejects (the transport fails)
FetchRejects(i) ==
    /\ i \in DOMAIN subs
    /\ subs[i].pc = "fetching"
    /\ CatchFailure(i, 0)

\* response.json() resolves with data: lines 86-91
JsonResolves(i, data) ==
    /\ i \in DOMAIN subs
    /\ subs[i].pc = "parsing"
    /\ chatBox' = SetText(chatBox, subs[i].thinkingMessage, ReplyText(data))
    /\ subs' = [subs EXCEPT ![i].pc = "done", ![i].data = data, ![i].writes = @ + 1]
    /\ UNCHANGED <<reqs, userInput, submitPath>>

\* response.json() rejects (the body is not JSON)
JsonRejects(i) ==
    /\ i \in DOMAIN subs
    /\ subs[i].pc = "parsing"
    /\ CatchFailure(i, subs[i].status)

\* what the user types
Inputs == {"", "  ", "Hi", " Hi ", "Yo\n"}

\* the bodies the relay answers its 200 with, as the client parses them, and
\* other JSON a server may send
UiData ==
    {Wire(OkResponse(resp).body) :
        resp \in {Shape(Str("one"), Absent, Absent), Shape(Str(""), Str("two"), Absent),
                  Shape(Num("42"), Absent, Absent), Undefined}}
    \cup {Null}

\* 200 and 500 are the relay's; 404 is another failure status
UiStatuses == {OkStatus, ErrorStatus, 404}

NextUI ==
    \/ \E v \in Inputs : Type(v)
    \/ Submit
    \/ \E i \in 1..MaxSubs, status \in UiStatuses : FetchResolves(i, status)
    \/ \E i \in 1..MaxSubs : FetchRejects(i)
    \/ \E i \in 1..MaxSubs, data \in UiData : JsonResolves(i, data)
    \/ \E i \in 1..MaxSubs : JsonRejects(i)

SpecUI == Init /\ [][NextUI]_vars

\* the transport completes or fails every request it carries
TransportFair ==
    \A i \in 1..MaxSubs :
        /\ WF_vars((\E status \in UiStatuses : FetchResolves(i, status)) \/ FetchRejects(i))
        /\ WF_vars((\E data \in UiData : JsonResolves(i, data)) \/ JsonRejects(i))

SpecUIFair == SpecUI /\ TransportFair

SpecRelay == Init /\ [][NextRelay]_vars
SpecExtract == Init /\ [][NextExtract]_vars

(***************************************************************************)
(* Properties of the relay                                                 *)
(***************************************************************************)
MessagesOf(r) == Get(r.body, "messages")
Answered(r) == r.pc = "done"

\* C1: a request whose messages field is not an array (a string, a number,
\* null, an object, absent, no body) is answered with { error: <string> }
\* and no generateContent call is ever issued for it.
C1_NonArrayRejected ==
    \A i \in DOMAIN reqs :
        ~IsArray(MessagesOf(reqs[i])) =>
            /\ reqs[i].calls = <<>>
            /\ Len(reqs[i].out) = 1
            /\ HasKey(Wire(reqs[i].out[1].body), "error")
            /\ Get(Wire(reqs[i].out[1].body), "error").t = "string"
            /\ ~HasKey(Wire(reqs[i].out[1].body), "result")

C1_Witness ==
    /\ \E i \in DOMAIN reqs : MessagesOf(reqs[i]) = Str("hello") /\ Answered(reqs[i])
    /\ \E i \in DOMAIN reqs : reqs[i].body = Obj(<<>>) /\ Answered(reqs[i])

\* C2: a request whose messages field is not an array is answered with a
\* status of the 400 class.
C2_NonArrayIsClientError ==
    \A i \in DOMAIN reqs :
        (~IsArray(MessagesOf(reqs[i])) /\ Answered(reqs[i])) =>
            \A k \in DOMAIN reqs[i].out : reqs[i].out[k].status \in 400..499

\* every element of the array is a chat message (an object), none is null
AllMessages(m) == IsArray(m) /\ \A j \in DOMAIN m.e : m.e[j].t = "object"

\* C3: a request whose messages field is an array of n >= 1 messages gets
\* exactly one generateContent call, to the fixed model, whose contents has
\* n turns, turn j being { role: messages[j].role, parts: [{ text:
\* messages[j].content }] }.
C3_OneCallSameTurns ==
    \A i \in DOMAIN reqs :
        LET m == MessagesOf(reqs[i]) IN
        (AllMessages(m) /\ Len(m.e) >= 1) =>
            /\ Len(reqs[i].calls) = 1
            /\ reqs[i].calls[1].model = "gemini-2.5-flash"
            /\ reqs[i].calls[1].contents.t = "array"
            /\ Len(reqs[i].calls[1].contents.e) = Len(m.e)
            /\ \A j \in DOMAIN m.e :
                  reqs[i].calls[1].contents.e[j] =
                      [t |-> "object",
                       f |-> << [k |-> "role", v |-> m.e[j].f[1].v],
                                [k |-> "parts",
                                 v |-> [t |-> "array",
                                        e |-> << [t |-> "object",
                                                  f |-> << [k |-> "text",
                                                            v |-> m.e[j].f[2].v] >>] >>]] >>]

C3_Witness ==
    \E i \in DOMAIN reqs :
        /\ MessagesOf(reqs[i]) = Arr(<<Msg("user", "Hi"), Msg("model", "Yo")>>)
        /\ Answered(reqs[i])
        /\ Len(reqs[i].calls) = 1

Resolved(r) == r.settled = "resolved"

\* the answer the claim expects for a resolved call: the first path whose
\* value passes `present`, else the serialization of the whole response
FirstPath(resp, present(_)) ==
    IF present(Path1(resp)) THEN Path1(resp)
    ELSE IF present(Path2(resp)) THEN Path2(resp)
    ELSE IF present(Path3(resp)) THEN Path3(resp)
    ELSE JSONstringify(resp)

IsDefined(v) == v.t # "undefined"
IsPresent(v) == v.t \notin {"undefined", "null"}

\* C4 as stated: the handler answers 200 with { result: text of the first of
\* the three paths whose value is defined }, or the serialization of the
\* response when none is defined.
C4_FirstDefinedPath ==
    \A i \in DOMAIN reqs :
        Resolved(reqs[i]) =>
            reqs[i].out = << [status |-> 200,
                              body |-> Obj(<<P("result", FirstPath(reqs[i].value, IsDefined))>>)] >>

\* C4 (amended): the handler answers 200 with { result: text of the first of
\* the three paths whose value is neither undefined nor null }, or the
\* JSON.stringify(resp, null, 2) of the response when every path is
\* undefined or null.
C4_FirstNonNullishPath ==
    \A i \in DOMAIN reqs :
        Resolved(reqs[i]) =>
            reqs[i].out = << [status |-> 200,
                              body |-> Obj(<<P("result", FirstPath(reqs[i].value, IsPresent))>>)] >>

C4_Witness ==
    /\ \E i \in DOMAIN reqs :
          /\ reqs[i].value = Shape(Str("one"), Str("two"), Str("three"))
          /\ Resolved(reqs[i])
          /\ Get(reqs[i].out[1].body, "result") = Str("one")
    /\ \E i \in DOMAIN reqs :
          /\ reqs[i].value = SdkShape
          /\ Resolved(reqs[i])
          /\ Get(reqs[i].out[1].body, "result") = JSONstringify(SdkShape)

\* C5: every 200 answer carries a result field that is a string, whatever
\* the call resolved with.
C5_ResultIsString ==
    \A i \in DOMAIN reqs :
        Resolved(reqs[i]) =>
            /\ Len(reqs[i].out) = 1
            /\ reqs[i].out[1].status = 200
            /\ HasKey(Wire(reqs[i].out[1].body), "result")
            /\ Get(Wire(reqs[i].out[1].body), "result").t = "string"

Rejected(r) == r.settled = "rejected"

\* C6: a request whose generateContent call throws or rejects is logged and
\* answered exactly once, with status 500 and { error: <message> } holding no
\* result; its call is not issued again; the server goes on receiving.
C6_RejectionIs500 ==
    /\ \A i \in DOMAIN reqs :
          Rejected(reqs[i]) =>
              /\ Len(reqs[i].out) = 1
              /\ reqs[i].out[1].status = 500
              /\ Wire(reqs[i].out[1].body) =
                    Obj(<<P("error",
                          IF reqs[i].value.t = "error" /\ reqs[i].value.message # ""
                          THEN Str(reqs[i].value.message)
                          ELSE Str("Internal Server Error"))>>)
              /\ Len(reqs[i].calls) = 1
              /\ reqs[i].logs = <<"Error in /api/chat:">>
    /\ ((\E i \in DOMAIN reqs : Rejected(reqs[i])) /\ Len(reqs) < MaxReqs)
          => ENABLED (\E body \in Bodies : Receive(body))

C6_Witness ==
    /\ Len(reqs) = 2
    /\ Rejected(reqs[1]) /\ reqs[1].value = Err("quota exceeded")
    /\ Resolved(reqs[2]) /\ reqs[2].out[1].status = 200

(***************************************************************************)
(* Properties of the chat UI controller                                    *)
(***************************************************************************)
\* the step accepts a submission: the handler ran past line 50
Accepts == Len(subs') = Len(subs) + 1

\* the step delivers the parsed body of a success answer to submission i
Delivers(i) ==
    /\ i \in DOMAIN subs
    /\ subs[i].pc = "parsing"
    /\ subs'[i].pc = "done"
    /\ ~subs'[i].caught

\* no bubble is removed or reordered: the box only grows, every bubble
\* keeps its place and sender, every user bubble its text
BubblesKept ==
    /\ Len(chatBox') >= Len(chatBox)
    /\ \A b \in DOMAIN chatBox :
          /\ chatBox'[b].sender = chatBox[b].sender
          /\ chatBox[b].sender = "user" => chatBox'[b].text = chatBox[b].text

\* the two bubbles of an accepted submission, the cleared input, the call
SubmitEffect ==
    Accepts =>
        /\ Len(userInput) > 0
        /\ chatBox' = chatBox \o << [sender |-> "user", text |-> subs'[Len(subs')].sent.f[1].v.e[1].f[2].v.v],
                                    [sender |-> "bot", text |-> "Thinking..."] >>
        /\ \E k \in 1..Len(userInput), n \in 1..Len(userInput) :
              /\ chatBox'[Len(chatBox) + 1].text = SubSeq(userInput, k, k + n - 1)
              /\ ~IsSpace(SubSeq(userInput, k, k))
              /\ ~IsSpace(SubSeq(userInput, k + n - 1, k + n - 1))
              /\ \A x \in (1..(k - 1)) \cup ((k + n)..Len(userInput)) :
                    IsSpace(SubSeq(userInput, x, x))
        /\ userInput' = ""
        /\ subs'[Len(subs')].pc = "fetching"
        /\ subs'[Len(subs')].thinkingMessage = Len(chatBox) + 2
        /\ SubSeq(subs', 1, Len(subs)) = subs

\* the text the placeholder of i takes on the step, given what the claim
\* shows for a body with no usable result
ReplyEffect(i, shown(_)) ==
    Delivers(i) =>
        /\ Len(chatBox') = Len(chatBox)
        /\ chatBox'[subs[i].thinkingMessage].text = shown(subs'[i].data)
        /\ \A b \in DOMAIN chatBox :
              b # subs[i].thinkingMessage => chatBox'[b] = chatBox[b]

\* as stated: the result when there is one, the fixed message when absent
ShownIfPresent(data) ==
    IF HasKey(data, "result") THEN Get(data, "result").v
    ELSE "Sorry, no response was received from the server."

\* as the code has it: the fixed message also for an empty (falsy) result
ShownIfTruthy(data) ==
    IF HasKey(data, "result") /\ Get(data, "result").v \notin {"", "0"}
    THEN Get(data, "result").v
    ELSE "Sorry, no response was received from the server."

\* C7 as stated: an accepted submission appends a user bubble with the
\* trimmed text and then a "Thinking..." bot bubble, clears the input and
\* issues one call; a success answer with result r sets that bot bubble's
\* text to r, or to the fixed message when the result is absent, adding no
\* bubble; no bubble is ever removed or reordered.
C7_ResultShownWhenPresent ==
    [][/\ SubmitEffect
       /\ \A i \in 1..MaxSubs : ReplyEffect(i, ShownIfPresent)
       /\ BubblesKept]_vars

\* C7 (amended): as above, the fixed "no response" message being shown when
\* the result is absent or falsy (an empty string).
C7_ResultShownWhenTruthy ==
    [][/\ SubmitEffect
       /\ \A i \in 1..MaxSubs : ReplyEffect(i, ShownIfTruthy)
       /\ BubblesKept]_vars

C7_Witness ==
    /\ Len(chatBox) = 2
    /\ chatBox[1] = [sender |-> "user", text |-> "Hi"]
    /\ chatBox[2] = [sender |-> "bot", text |-> "one"]
    /\ subs[1].pc = "done" /\ subs[1].data = Obj(<<P("result", Str("one"))>>)
    /\ userInput = ""

\* the input holds nothing but white space
Blank(s) == \A k \in 1..Len(s) : IsSpace(SubSeq(s, k, k))

\* C8: a submission of an empty or whitespace-only input leaves the bubbles,
\* their texts and the calls in flight as they were, whatever is pending.
C8_BlankSubmitChangesNothing ==
    [][(Blank(userInput) /\ Submit) => UNCHANGED <<chatBox, subs>>]_vars

C8_Witness ==
    /\ submitPath = "ignored"
    /\ userInput = "  "
    /\ Len(chatBox) = 2
    /\ subs[1].pc = "fetching"

Failed(u) == u.pc = "done" /\ (u.status = 0 \/ u.status \notin 200..299)

\* C9: under a transport that completes or fails every request, every
\* placeholder eventually stops showing "Thinking..." and shows the
\* result, the fixed "no response" message or the fixed failure message;
\* after a non-success status or a transport failure it shows the failure
\* message, the error having been caught by the handler.
C9_EveryCallResolves ==
    /\ \A i \in 1..MaxSubs :
          [](i \in DOMAIN subs =>
                <>(/\ i \in DOMAIN subs
                   /\ subs[i].pc = "done"
                   /\ chatBox[subs[i].thinkingMessage].text # "Thinking..."))
    /\ [](\A i \in DOMAIN subs :
             /\ subs[i].pc = "done" =>
                   \/ chatBox[subs[i].thinkingMessage].text \in
                         {"Sorry, no response was received from the server.",
                          "Failed to get a response from the server. Please try again."}
                   \/ /\ HasKey(subs[i].data, "result")
                      /\ chatBox[subs[i].thinkingMessage].text = Get(subs[i].data, "result").v
             /\ Failed(subs[i]) =>
                   /\ chatBox[subs[i].thinkingMessage].text =
                         "Failed to get a response from the server. Please try again."
                   /\ subs[i].caught)

C9_Witness ==
    /\ Len(subs) = 2
    /\ subs[1].pc = "done" /\ subs[1].status = 500 /\ subs[1].caught
    /\ chatBox[2].text = FailureText
    /\ subs[2].pc = "done" /\ subs[2].status = 0 /\ subs[2].caught
    /\ chatBox[4].text = FailureText

\* C10: submissions in flight together have placeholders of their own; an
\* answer to one changes the text of its placeholder only; a placeholder is
\* written once, when its answer arrives; the box holds two bubbles per
\* accepted submission.
C10_IndependentPlaceholders ==
    /\ [](/\ Len(chatBox) = 2 * Len(subs)
          /\ \A i \in DOMAIN subs :
                /\ subs[i].thinkingMessage \in DOMAIN chatBox
                /\ chatBox[subs[i].thinkingMessage].sender = "bot"
                /\ subs[i].writes = (IF subs[i].pc = "done" THEN 1 ELSE 0)
                /\ subs[i].pc # "done" => chatBox[subs[i].thinkingMessage].text = "Thinking..."
                /\ \A j \in DOMAIN subs :
                      i # j => subs[i].thinkingMessage # subs[j].thinkingMessage)
    /\ [][\A i \in DOMAIN subs :
             subs'[i] # subs[i] =>
                /\ \A j \in DOMAIN subs : j # i => subs'[j] = subs[j]
                /\ \A b \in DOMAIN chatBox :
                      b # subs[i].thinkingMessage => chatBox'[b] = chatBox[b]]_vars

\* a later submission resolved while an earlier one still shows "Thinking..."
C10_Witness ==
    /\ Len(subs) = 2
    /\ subs[1].pc = "fetching" /\ chatBox[2].text = "Thinking..."
    /\ subs[2].pc = "done" /\ chatBox[4].text = "one"

====
